---- MODULE Spec2Model ----
(***************************************************************************)
(* Model of the adaptive-window fit extractor of the chamber repository:   *)
(* AnalysisEngine._get_fits, _get_best_local_fit, _ols_fit, _evaluate_fit  *)
(* and _persist_fits (chamber/engine/analysis/service.py), the regressor   *)
(* of chi2.py, the access layer that stores tubes and raw data             *)
(* (chamber/access), the table builder of manager/crud.py and the film     *)
(* state of film.py and models2.py.                                        *)
(*                                                                         *)
(* Numbers.  Masses are integers counted in units of the mass sensor's     *)
(* standard deviation (ufloat(obs.mass, 1e-7), service.py line 90), so the *)
(* per-point sigma is 1 and every weight 1/sig**2 is 1.  The fit's         *)
(* quotients are kept exact as pairs <<numerator, denominator>>, square    *)
(* roots are kept as the rational under the root, and sums of squares are  *)
(* kept as the sequence of their terms over a common denominator.  The     *)
(* arithmetic is that of the reals: rounding of Python floats is not       *)
(* modelled.                                                               *)
(***************************************************************************)
EXTENDS Integers, Sequences, FiniteSets, TLC

VARIABLES
    time,           \* index of self._observations (obs.idx - initial_idx)
    m,              \* column 'm' of self._observations (nominal values)
    idx,            \* self._idx, the scan pointer
    fits,           \* self._fits, the result list
    sample,         \* self._sample: row positions (0-based) of the max slice
    steps,          \* local 'steps' of _get_best_local_fit
    this_sample,    \* self._this_sample: row positions of the sub-window
    fit,            \* local 'fit' of _get_best_local_fit / regressor result
    this_fit,       \* self._this_fit
    pc,             \* position in the code
    iterations,     \* number of iterations of the loop of _get_fits begun
    fitted,         \* number of sub-windows the running inner search fitted
    examined,       \* rows that were in a candidate sample of this scan
    call,           \* which call of process_fits on this engine is running
    counter,        \* local 'counter' of _persist_fits
    fit_table,      \* the rows of the Fit table, in insertion order
    db,             \* the other tables of the database, in insertion order
    access,         \* the last call of the access layer and what it returned
    ref_state,      \* a ReferenceState object (film state and its settings)
    film_call,      \* the last call of the film code and what it returned
    build_instructions, \* util_ddl.build_instructions: table order and DDL
    cursor,         \* the statements the MySQL cursor executed, in order
    crud            \* the last call of the CRUD manager and what it returned

\* The module data and the cursor of the CRUD manager.
crud_vars == <<build_instructions, cursor, crud>>

\* The attributes of the analysis engine and the Fit table it writes.
engine_vars == <<time, m, idx, fits, sample, steps, this_sample, fit, this_fit,
                 iterations, fitted, examined, call, counter, fit_table>>

vars == <<time, m, idx, fits, sample, steps, this_sample, fit, this_fit, pc,
          iterations, fitted, examined, call, counter, fit_table, db, access,
          build_instructions, cursor, crud, ref_state,
          film_call>>

----------------------------------------------------------------------------
(* Bounds of the model *)

MaxN == 7           \* longest observation series
MaxGap == 7         \* largest jump between two consecutive time indices
MassStep == 100     \* step of the mass values, in sigma
MidGap == 4         \* a jump between the smallest and the largest

MassValues == {0, MassStep, 2 * MassStep}
GapSizes == {2, MidGap, MaxGap}

\* The model follows a scan for at most this many iterations of its loop.
MaxIterations == MaxN + 2

(* Program constants *)

ErrorNum == 1       \* self._error = 0.01 = ErrorNum / ErrorDen
ErrorDen == 100
InitialIdx == 1     \* self._idx = 1
InitialSteps == 1   \* self._steps = 1

None == [status |-> "None"]

\* The database after Base.metadata.create_all: every table is empty.  A
\* table is the sequence of its rows; the primary key of a row is its
\* position (auto-increment, rows are never deleted).
EmptyDb == [tubes |-> <<>>, pools |-> <<>>, settings |-> <<>>,
            experiments |-> <<>>, observations |-> <<>>, temperatures |-> <<>>,
            pool_experiments |-> <<>>]

\* No call of the access layer, or of the film code, has been made.
NoCall == [op |-> "none"]

ValueError == [status |-> "ValueError"]
ZeroDivisionError == [status |-> "ZeroDivisionError"]

----------------------------------------------------------------------------
(* Helpers: Python list and pandas semantics *)

Min(a, b) == IF a <= b THEN a ELSE b

Max(a, b) == IF a >= b THEN a ELSE b

SetMin(S) == CHOOSE x \in S : \A y \in S : x <= y

\* sum(f[i] for i in 1..Len(f))
RECURSIVE SumSeq(_)
SumSeq(f) == IF f = <<>> THEN 0 ELSE f[1] + SumSeq(Tail(f))

\* list(range(n))
Range(n) == [i \in 1..n |-> i - 1]

\* len(self._observations)
NObs == Len(time)

\* self._observations.loc[left:right, :] -- label slice, both ends included,
\* on a sorted integer index: the rows whose label lies in [left, right];
\* labels that are absent are allowed and an empty frame is a legal result.
Loc(left, right) ==
    LET rows == {p \in 0..(NObs - 1) : left <= time[p + 1] /\ time[p + 1] <= right}
    IN  IF rows = {} THEN <<>>
        ELSE [k \in 1..Cardinality(rows) |-> SetMin(rows) + k - 1]

\* frame.iloc[a:b, :] -- positional slice, end excluded, clipped at the end;
\* a negative start counts from the end as in Python.
ILoc(frame, a, b) ==
    LET n == Len(frame)
        lo == IF a < 0 THEN Max(n + a, 0) ELSE Min(a, n)
        hi == IF b < 0 THEN Max(n + b, 0) ELSE Min(b, n)
    IN  IF lo >= hi THEN <<>> ELSE SubSeq(frame, lo + 1, hi)

\* frame['m'].tolist() -> nominal values
MassOf(frame) == [k \in 1..Len(frame) |-> m[frame[k] + 1]]

----------------------------------------------------------------------------
(* The weighted linear regressor *)

\* A sum of squares sum((t / den)**2 for t in terms), kept unevaluated.
SumSq(terms, den) == [terms |-> terms, den |-> den]

IsZeroSumSq(q) == \A i \in 1..Len(q.terms) : q.terms[i] = 0

\* _ols_fit handing back the quotients without the division raising.
OlsFitUnchecked(y) ==
    LET n == Len(y)
        x == Range(n)
        S == SumSeq([i \in 1..n |-> 1])
        Sx == SumSeq([i \in 1..n |-> x[i]])
        Sy == SumSeq([i \in 1..n |-> y[i]])
        Sxx == SumSeq([i \in 1..n |-> x[i] * x[i]])
        Sxy == SumSeq([i \in 1..n |-> x[i] * y[i]])
        Delta == S * Sxx - Sx * Sx
    IN  [status |-> "ok",
         a      |-> <<Sxx * Sy - Sx * Sxy, Delta>>,
         sig_a  |-> <<Sxx, Delta>>,
         b      |-> <<S * Sxy - Sx * Sy, Delta>>,
         sig_b  |-> <<S, Delta>>]

\* _ols_fit with Sy in the place of Sxy in the intercept.
OlsFitWrongIntercept(y) ==
    LET n == Len(y)
        x == Range(n)
        S == SumSeq([i \in 1..n |-> 1])
        Sx == SumSeq([i \in 1..n |-> x[i]])
        Sy == SumSeq([i \in 1..n |-> y[i]])
        Sxx == SumSeq([i \in 1..n |-> x[i] * x[i]])
        Sxy == SumSeq([i \in 1..n |-> x[i] * y[i]])
        Delta == S * Sxx - Sx * Sx
    IN  IF Delta = 0 THEN ZeroDivisionError
        ELSE [status |-> "ok",
              a      |-> <<Sxx * Sy - Sx * Sy, Delta>>,
              sig_a  |-> <<Sxx, Delta>>,
              b      |-> <<S * Sxy - Sx * Sy, Delta>>,
              sig_b  |-> <<S, Delta>>]

\* AnalysisEngine._ols_fit applied to the nominal masses y of
\* self._this_sample; sig[i] = 1 for every point, x = list(range(len(y))).
\* The first division by Delta raises when Delta == 0.0 (Python floats).
\* sig_a and sig_b hold the rational whose square root the code takes.
OlsFit(y) ==
    LET n == Len(y)
        x == Range(n)
        S == SumSeq([i \in 1..n |-> 1])
        Sx == SumSeq([i \in 1..n |-> x[i]])
        Sy == SumSeq([i \in 1..n |-> y[i]])
        Sxx == SumSeq([i \in 1..n |-> x[i] * x[i]])
        Sxy == SumSeq([i \in 1..n |-> x[i] * y[i]])
        Delta == S * Sxx - Sx * Sx
    IN  IF Delta = 0 THEN ZeroDivisionError
        ELSE [status |-> "ok",
              a      |-> <<Sxx * Sy - Sx * Sxy, Delta>>,
              sig_a  |-> <<Sxx, Delta>>,
              b      |-> <<S * Sxy - Sx * Sy, Delta>>,
              sig_b  |-> <<S, Delta>>]

\* fit['b'] == 0
SlopeIsZero(f) == f.b[1] = 0

\* The threshold test with the error taken as 0.1: the bound compared
\* against is ten times too loose.
MeetsErrorLoose(f) ==
    ErrorDen * f.sig_b[1] * f.b[2] <= ErrorNum * ErrorNum * f.b[1] * f.b[1]

\* fit['sig_b']/abs(fit['b']) <= self._error, for b != 0.  With
\* sig_b = sqrt(S/Delta), b = B/Delta and Delta > 0 this is
\* S * Delta / B**2 <= error**2.
MeetsError(f) ==
    ErrorDen * ErrorDen * f.sig_b[1] * f.b[2] <= ErrorNum * ErrorNum * f.b[1] * f.b[1]

\* scipy.stats.chi2.sf(merit_value, nu): the upper tail of the chi-square
\* distribution with nu degrees of freedom.  It is nan for nu <= 0, 1 at
\* merit_value = 0 and below 1 elsewhere; the value in between is kept
\* symbolic.
Chi2Sf(merit_value, nu) ==
    [sf_at |-> merit_value,
     nu    |-> nu,
     value |-> IF nu <= 0 THEN "nan"
               ELSE IF IsZeroSumSq(merit_value) THEN "1"
               ELSE "below 1"]

\* AnalysisEngine._evaluate_fit: the payload stored in self._evaluated_fit
\* for the accepted fit f over the masses y, or the ZeroDivisionError of
\* 1 - SSres/SStot when SStot == 0.
EvaluateFit(f, y, exp_id, at_idx) ==
    LET n == Len(y)
        x == Range(n)
        Delta == f.b[2]
        Sy == SumSeq([i \in 1..n |-> y[i]])
        \* y[i] - predicted[i], over the denominator Delta
        SSres == SumSq([i \in 1..n |-> y[i] * Delta - f.a[1] - f.b[1] * x[i]], Delta)
        \* y[i] - y_bar, over the denominator len(y)
        SStot == SumSq([i \in 1..n |-> n * y[i] - Sy], n)
        merit_value == SSres
    IN  IF IsZeroSumSq(SStot) THEN ZeroDivisionError
        ELSE [status |-> "ok",
              a      |-> f.a,
              sig_a  |-> f.sig_a,
              b      |-> f.b,
              sig_b  |-> f.sig_b,
              r2     |-> [one_minus |-> <<SSres, SStot>>],
              q      |-> Chi2Sf(merit_value, n - 2),
              chi2   |-> merit_value,
              nu     |-> n - 2,
              exp_id |-> exp_id,
              idx    |-> at_idx]

----------------------------------------------------------------------------
(* The scan: AnalysisEngine._get_fits and _get_best_local_fit *)

ExperimentId == 1   \* AnalysisEngine(1)

\* A series of n observations whose time index starts at 0 and is strictly
\* increasing, contiguous except for one jump of size gap after row g.
TimeIndex(n, g, gap) == [i \in 1..n |-> IF i <= g THEN i - 1 ELSE i - 1 + gap - 1]

TimeIndexes(n) ==
    {TimeIndex(n, n, 1)} \cup {TimeIndex(n, g, gap) : g \in 1..(n - 1), gap \in GapSizes}

\* State after AnalysisEngine.__init__ and _get_observations.
Init ==
    /\ \E n \in 1..MaxN :
        /\ time \in TimeIndexes(n)
        /\ m \in [1..n -> MassValues]
    /\ idx = InitialIdx
    /\ fits = <<>>
    /\ sample = <<>>
    /\ steps = InitialSteps
    /\ this_sample = <<>>
    /\ fit = None
    /\ this_fit = None
    /\ pc = "while"
    /\ iterations = 0
    /\ fitted = 0
    /\ examined = {}
    /\ call = "earlier"
    /\ counter = 0
    /\ fit_table = <<>>
    /\ db = EmptyDb
    /\ access = NoCall
    /\ ref_state = None
    /\ film_call = NoCall
    /\ build_instructions = <<>>
    /\ cursor = <<>>
    /\ crud = NoCall

\* len(self._sample) // 2
center == Len(sample) \div 2

\* delta = int(steps), the copy of self._steps taken before the loop
delta == InitialSteps

\* The loop test letting the pointer reach the last index but one.
GetMaxSliceToLastButOne ==
    /\ pc = "while"
    /\ idx < NObs - 1
    /\ iterations < MaxIterations
    /\ LET left == (2 * idx) - NObs + 1
           right == 2 * idx
       IN  /\ sample' = Loc(left, right)
           /\ examined' = examined \cup {sample'[k] : k \in 1..Len(sample')}
    /\ fitted' = 0
    /\ steps' = InitialSteps
    /\ iterations' = iterations + 1
    /\ pc' = "search"
    /\ UNCHANGED <<crud_vars, ref_state, film_call, db, access, time, m, call, counter, fit_table, idx, fits, this_sample, fit, this_fit>>

\* The inner search starting one step too wide, at steps = self._steps + delta.
GetMaxSliceWide ==
    /\ pc = "while"
    /\ idx < NObs - 2
    /\ iterations < MaxIterations
    /\ LET left == (2 * idx) - NObs + 1
           right == 2 * idx
       IN  /\ sample' = Loc(left, right)
           /\ examined' = examined \cup {sample'[k] : k \in 1..Len(sample')}
    /\ fitted' = 0
    /\ steps' = InitialSteps + delta
    /\ iterations' = iterations + 1
    /\ pc' = "search"
    /\ UNCHANGED <<crud_vars, ref_state, film_call, db, access, time, m, call, counter, fit_table, idx, fits, this_sample, fit, this_fit>>

\* _get_fits lines 255-261: the loop test succeeds, the max slice is taken
\* and _get_best_local_fit starts with steps = self._steps (lines 463-465).
\* The model stops following a scan that has begun MaxIterations iterations.
GetMaxSlice ==
    /\ pc = "while"
    /\ idx < NObs - 2
    /\ iterations < MaxIterations
    /\ LET left == (2 * idx) - NObs + 1
           right == 2 * idx
       IN  /\ sample' = Loc(left, right)
           /\ examined' = examined \cup {sample'[k] : k \in 1..Len(sample')}
    /\ fitted' = 0
    /\ steps' = InitialSteps
    /\ iterations' = iterations + 1
    /\ pc' = "search"
    /\ UNCHANGED <<crud_vars, ref_state, film_call, db, access, time, m, call, counter, fit_table, idx, fits, this_sample, fit, this_fit>>

\* _get_fits line 255: the loop test fails and the scan returns.
ExitScan ==
    /\ pc = "while"
    /\ ~(idx < NObs - 2)
    /\ pc' = "done"
    /\ UNCHANGED <<crud_vars, ref_state, film_call, db, access, time, m, fitted, examined, call, counter, fit_table, iterations, idx, fits, sample, steps, this_sample, fit, this_fit>>

\* _get_best_local_fit lines 466-470: the sub-window is sliced and fitted.
FitSubWindow ==
    /\ pc = "search"
    /\ center + steps + 1 <= Len(sample)
    /\ this_sample' = ILoc(sample, center - steps, center + steps + 1)
    /\ fit' = OlsFit(MassOf(this_sample'))
    /\ fitted' = fitted + 1
    /\ pc' = IF fit'.status = "ok" THEN "test" ELSE "raised"
    /\ UNCHANGED <<crud_vars, ref_state, film_call, db, access, time, m, examined, call, counter, fit_table, iterations, idx, fits, sample, steps, this_fit>>

\* The zero-slope branch continuing without widening.
WidenZeroSlopeStuck ==
    /\ pc = "test"
    /\ SlopeIsZero(fit)
    /\ pc' = "search"
    /\ UNCHANGED <<crud_vars, ref_state, film_call, db, access, time, m, fitted, examined, call, counter, fit_table, iterations, idx, fits, sample, steps, this_sample, fit, this_fit>>

\* lines 473-475: b == 0, widen and continue.
WidenZeroSlope ==
    /\ pc = "test"
    /\ SlopeIsZero(fit)
    /\ steps' = steps + delta
    /\ pc' = "search"
    /\ UNCHANGED <<crud_vars, ref_state, film_call, db, access, time, m, fitted, examined, call, counter, fit_table, iterations, idx, fits, sample, this_sample, fit, this_fit>>

\* The threshold test reached without the test for b == 0: the division
\* sig_b/abs(b) raises for a zero slope.
AcceptFitWithoutSlopeTest ==
    /\ pc = "test"
    /\ IF SlopeIsZero(fit)
       THEN /\ pc' = "raised"
            /\ this_fit' = this_fit
       ELSE /\ MeetsError(fit)
            /\ this_fit' = fit
            /\ pc' = "returned"
    /\ UNCHANGED <<crud_vars, ref_state, film_call, db, access, time, m, fitted, examined, call, counter, fit_table, iterations, idx, fits, sample, steps, this_sample, fit>>

\* lines 476-478: the sub-window meets the threshold and is accepted.
AcceptFit ==
    /\ pc = "test"
    /\ ~SlopeIsZero(fit)
    /\ MeetsError(fit)
    /\ this_fit' = fit
    /\ pc' = "returned"
    /\ UNCHANGED <<crud_vars, ref_state, film_call, db, access, time, m, fitted, examined, call, counter, fit_table, iterations, idx, fits, sample, steps, this_sample, fit>>

\* The rejected branch going round again without widening.
WidenRejectedStuck ==
    /\ pc = "test"
    /\ ~SlopeIsZero(fit)
    /\ ~MeetsError(fit)
    /\ pc' = "search"
    /\ UNCHANGED <<crud_vars, ref_state, film_call, db, access, time, m, fitted, examined, call, counter, fit_table, iterations, idx, fits, sample, steps, this_sample, fit, this_fit>>

\* lines 479-480: the threshold is not met, widen.
WidenRejected ==
    /\ pc = "test"
    /\ ~SlopeIsZero(fit)
    /\ ~MeetsError(fit)
    /\ steps' = steps + delta
    /\ pc' = "search"
    /\ UNCHANGED <<crud_vars, ref_state, film_call, db, access, time, m, fitted, examined, call, counter, fit_table, iterations, idx, fits, sample, this_sample, fit, this_fit>>

\* lines 466, 481-482: the window would leave the sample, no fit was found.
NoFitFound ==
    /\ pc = "search"
    /\ ~(center + steps + 1 <= Len(sample))
    /\ this_fit' = None
    /\ pc' = "returned"
    /\ UNCHANGED <<crud_vars, ref_state, film_call, db, access, time, m, fitted, examined, call, counter, fit_table, iterations, idx, fits, sample, steps, this_sample, fit>>

\* The evaluated fit put at the front of the list.
InsertFitAtFront ==
    /\ pc = "returned"
    /\ this_fit # None
    /\ LET evaluated_fit == EvaluateFit(this_fit, MassOf(this_sample), ExperimentId, idx)
       IN  IF evaluated_fit.status = "ok"
           THEN /\ this_fit' = evaluated_fit
                /\ fits' = <<evaluated_fit>> \o fits
                /\ idx' = idx + evaluated_fit.nu + 2
                /\ pc' = "while"
           ELSE /\ pc' = "raised"
                /\ UNCHANGED <<this_fit, fits, idx>>
    /\ UNCHANGED <<crud_vars, ref_state, film_call, db, access, time, m, fitted, examined, call, counter, fit_table, iterations, sample, steps, this_sample, fit>>

\* _get_fits lines 262-270: the fit is evaluated, appended and the pointer
\* moves by nu + 2.  _evaluate_fit adds its keys to the dict held by
\* self._this_fit ('data = fit' is no copy).
AppendFit ==
    /\ pc = "returned"
    /\ this_fit # None
    /\ LET evaluated_fit == EvaluateFit(this_fit, MassOf(this_sample), ExperimentId, idx)
       IN  IF evaluated_fit.status = "ok"
           THEN /\ this_fit' = evaluated_fit
                /\ fits' = Append(fits, evaluated_fit)
                /\ idx' = idx + evaluated_fit.nu + 2
                /\ pc' = "while"
           ELSE /\ pc' = "raised"
                /\ UNCHANGED <<this_fit, fits, idx>>
    /\ UNCHANGED <<crud_vars, ref_state, film_call, db, access, time, m, fitted, examined, call, counter, fit_table, iterations, sample, steps, this_sample, fit>>

\* The no-fit branch moving the pointer by one row only.
SkipOneRow ==
    /\ pc = "returned"
    /\ this_fit = None
    /\ idx' = idx + 1
    /\ pc' = "while"
    /\ UNCHANGED <<crud_vars, ref_state, film_call, db, access, time, m, fitted, examined, call, counter, fit_table, iterations, fits, sample, steps, this_sample, fit, this_fit>>

\* _get_fits lines 271-272: no fit, the pointer moves by len(self._sample).
SkipSample ==
    /\ pc = "returned"
    /\ this_fit = None
    /\ idx' = idx + Len(sample)
    /\ pc' = "while"
    /\ UNCHANGED <<crud_vars, ref_state, film_call, db, access, time, m, fitted, examined, call, counter, fit_table, iterations, fits, sample, steps, this_sample, fit, this_fit>>

\* ExperimentAccess.add_fit(fit_spec, experiment_id): one row of the Fit
\* table with the fields of the FitSpec, under the experiment.
AddFit(table, fit_spec, experiment_id) ==
    Append(table, [a     |-> fit_spec.a,
                   sig_a |-> fit_spec.sig_a,
                   b     |-> fit_spec.b,
                   sig_b |-> fit_spec.sig_b,
                   r2    |-> fit_spec.r2,
                   q     |-> fit_spec.q,
                   chi2  |-> fit_spec.chi2,
                   nu    |-> fit_spec.nu,
                   idx   |-> fit_spec.idx,
                   experiment_id |-> experiment_id])

\* process_fits line 62, _persist_fits line 275: _get_fits has returned,
\* _persist_fits starts with counter = 0.
StartPersistFits ==
    /\ pc = "done"
    /\ counter' = 0
    /\ pc' = "persist"
    /\ UNCHANGED <<crud_vars, ref_state, film_call, db, access, time, m, fitted, examined, call, fit_table, iterations, idx, fits, sample, steps, this_sample, fit, this_fit>>

\* The loop body storing self._fits[0] every time round.
PersistFirstFit ==
    /\ pc = "persist"
    /\ counter < Len(fits)
    /\ fit_table' = AddFit(fit_table, fits[1], ExperimentId)
    /\ counter' = counter + 1
    /\ UNCHANGED <<crud_vars, ref_state, film_call, db, access, time, m, fitted, examined, call, pc, iterations, idx, fits, sample, steps, this_sample, fit, this_fit>>

\* _persist_fits lines 276-279: one round of 'for data in self._fits'.
PersistFit ==
    /\ pc = "persist"
    /\ counter < Len(fits)
    /\ fit_table' = AddFit(fit_table, fits[counter + 1], ExperimentId)
    /\ counter' = counter + 1
    /\ UNCHANGED <<crud_vars, ref_state, film_call, db, access, time, m, fitted, examined, call, pc, iterations, idx, fits, sample, steps, this_sample, fit, this_fit>>

\* _persist_fits line 280: the loop is over, counter is returned.
ReturnCounter ==
    /\ pc = "persist"
    /\ ~(counter < Len(fits))
    /\ pc' = "persisted"
    /\ UNCHANGED <<crud_vars, ref_state, film_call, db, access, time, m, fitted, examined, call, counter, fit_table, iterations, idx, fits, sample, steps, this_sample, fit, this_fit>>

Next ==
    \/ GetMaxSlice
    \/ ExitScan
    \/ FitSubWindow
    \/ WidenZeroSlope
    \/ AcceptFit
    \/ WidenRejected
    \/ NoFitFound
    \/ AppendFit
    \/ SkipSample
    \/ StartPersistFits
    \/ PersistFit
    \/ ReturnCounter

Spec == Init /\ [][Next]_vars

----------------------------------------------------------------------------
(* One engine serving two calls of process_fits *)

MaxEngineN == 4     \* longest series handed to the engine that is reused

\* The series with contiguous time indices 0..n-1, n <= MaxEngineN.
EngineSeries ==
    UNION {{[time |-> TimeIndex(n, n, 1), m |-> y] : y \in [1..n -> MassValues]} :
           n \in 1..MaxEngineN}

\* State after AnalysisEngine.__init__ and the _get_observations of the
\* first call of process_fits.
EngineInit ==
    /\ \E series \in EngineSeries :
        /\ time = series.time
        /\ m = series.m
    /\ idx = InitialIdx
    /\ fits = <<>>
    /\ sample = <<>>
    /\ steps = InitialSteps
    /\ this_sample = <<>>
    /\ fit = None
    /\ this_fit = None
    /\ pc = "while"
    /\ iterations = 0
    /\ fitted = 0
    /\ examined = {}
    /\ call = "earlier"
    /\ counter = 0
    /\ fit_table = <<>>
    /\ db = EmptyDb
    /\ access = NoCall
    /\ ref_state = None
    /\ film_call = NoCall
    /\ build_instructions = <<>>
    /\ cursor = <<>>
    /\ crud = NoCall

\* process_fits lines 51-61 called again on the same engine, as
\* DataManager keeps one AnalysisEngine: self._data is replaced and
\* _get_observations rebuilds self._observations; self._idx and
\* self._fits are not assigned.
ProcessFits ==
    /\ pc = "persisted"
    /\ call = "earlier"
    /\ \E series \in EngineSeries :
        /\ time' = series.time
        /\ m' = series.m
    /\ call' = "later"
    /\ iterations' = 0
    /\ fitted' = 0
    /\ examined' = {}
    /\ pc' = "while"
    /\ UNCHANGED <<crud_vars, ref_state, film_call, db, access, counter, fit_table, idx, fits, sample, steps, this_sample, fit, this_fit>>

EngineNext ==
    \/ Next
    \/ ProcessFits

EngineSpec == EngineInit /\ [][EngineNext]_vars

----------------------------------------------------------------------------
(* The access layer: ExperimentAccess and ExperimentalAccess *)

MaxTubes == 2           \* most rows of the Tubes and of the Pools table
MaxObservations == 2    \* most observations of a DataSpec
MaxThermocouples == 2   \* most temperatures of an observation

\* query.first() on a filter, given the keys of the rows that match: the
\* primary key of the first row, 0 when there is none.
FirstKey(keys) == IF keys = {} THEN 0 ELSE SetMin(keys)

\* The number of rows of the table that belong to the experiment.
CountFor(table, experiment_id) ==
    Cardinality({k \in 1..Len(table) : table[k].experiment_id = experiment_id})

\* The lookup filtering on four attributes only, the mass left out.
AddTubeIgnoringMass(tubes, tube_spec) ==
    LET Matches(row) ==
            /\ row.inner_diameter = tube_spec.inner_diameter
            /\ row.outer_diameter = tube_spec.outer_diameter
            /\ row.height = tube_spec.height
            /\ row.material = tube_spec.material
        tube_id == FirstKey({k \in 1..Len(tubes) : Matches(tubes[k])})
    IN  IF tube_id = 0
        THEN [table |-> Append(tubes, tube_spec), key |-> Len(tubes) + 1]
        ELSE [table |-> tubes, key |-> tube_id]

\* ExperimentAccess._add_tube and ExperimentalAccess.add_pool: the table
\* after the call and the primary key returned.
AddTube(tubes, tube_spec) ==
    LET Matches(row) ==
            /\ row.inner_diameter = tube_spec.inner_diameter
            /\ row.outer_diameter = tube_spec.outer_diameter
            /\ row.height = tube_spec.height
            /\ row.material = tube_spec.material
            /\ row.mass = tube_spec.mass
        tube_id == FirstKey({k \in 1..Len(tubes) : Matches(tubes[k])})
    IN  IF tube_id = 0
        THEN [table |-> Append(tubes, [inner_diameter |-> tube_spec.inner_diameter,
                                       outer_diameter |-> tube_spec.outer_diameter,
                                       height         |-> tube_spec.height,
                                       material       |-> tube_spec.material,
                                       mass           |-> tube_spec.mass]),
              key   |-> Len(tubes) + 1]
        ELSE [table |-> tubes, key |-> tube_id]

\* ExperimentAccess._add_setting
AddSetting(settings, setting_spec) ==
    LET Matches(row) ==
            /\ row.duty = setting_spec.duty
            /\ row.pressure = setting_spec.pressure
            /\ row.temperature = setting_spec.temperature
            /\ row.time_step = setting_spec.time_step
        setting_id == FirstKey({k \in 1..Len(settings) : Matches(settings[k])})
    IN  IF setting_id = 0
        THEN [table |-> Append(settings, [duty        |-> setting_spec.duty,
                                          pressure    |-> setting_spec.pressure,
                                          temperature |-> setting_spec.temperature,
                                          time_step   |-> setting_spec.time_step]),
              key   |-> Len(settings) + 1]
        ELSE [table |-> settings, key |-> setting_id]

\* The lookup filtering on the datetime and the author.
AddExperimentByAuthor(experiments, experiment_spec, setting_id) ==
    LET Matches(row) == /\ row.datetime = experiment_spec.datetime
                        /\ row.author = experiment_spec.author
        experiment_id == FirstKey({k \in 1..Len(experiments) : Matches(experiments[k])})
    IN  IF experiment_id = 0
        THEN [table |-> Append(experiments, [author      |-> experiment_spec.author,
                                             datetime    |-> experiment_spec.datetime,
                                             description |-> experiment_spec.description,
                                             tube_id     |-> experiment_spec.tube_id,
                                             setting_id  |-> setting_id]),
              key   |-> Len(experiments) + 1]
        ELSE [table |-> experiments, key |-> experiment_id]

\* ExperimentAccess._add_experiment: the experiment is looked up by its
\* datetime alone.
AddExperiment(experiments, experiment_spec, setting_id) ==
    LET Matches(row) == row.datetime = experiment_spec.datetime
        experiment_id == FirstKey({k \in 1..Len(experiments) : Matches(experiments[k])})
    IN  IF experiment_id = 0
        THEN [table |-> Append(experiments, [author      |-> experiment_spec.author,
                                             datetime    |-> experiment_spec.datetime,
                                             description |-> experiment_spec.description,
                                             tube_id     |-> experiment_spec.tube_id,
                                             setting_id  |-> setting_id]),
              key   |-> Len(experiments) + 1]
        ELSE [table |-> experiments, key |-> experiment_id]

\* The Observation rows built from a list of ObservationSpec.
RECURSIVE ObservationRows(_, _)
ObservationRows(observations, experiment_id) ==
    IF observations = <<>> THEN <<>>
    ELSE <<[idx |-> Head(observations).idx,
            mass |-> Head(observations).mass,
            experiment_id |-> experiment_id]>>
         \o ObservationRows(Tail(observations), experiment_id)

\* The Temperature rows built from a list of ObservationSpec.
RECURSIVE TemperatureRows(_, _)
TemperatureRows(observations, experiment_id) ==
    IF observations = <<>> THEN <<>>
    ELSE [t \in 1..Len(Head(observations).temperatures) |->
            [thermocouple_num |-> Head(observations).temperatures[t].thermocouple_num,
             temperature      |-> Head(observations).temperatures[t].temperature,
             idx              |-> Head(observations).temperatures[t].idx,
             experiment_id    |-> experiment_id]]
         \o TemperatureRows(Tail(observations), experiment_id)

\* _add_observations inserting its rows whether or not the experiment has
\* observations already.
AddObservationsAgain(database, observations, experiment_id) ==
    LET observation_table ==
            database.observations \o ObservationRows(observations, experiment_id)
        temperature_table ==
            database.temperatures \o TemperatureRows(observations, experiment_id)
    IN  [observation_table |-> observation_table,
         temperature_table |-> temperature_table,
         observations |-> CountFor(observation_table, experiment_id),
         temperatures |-> CountFor(temperature_table, experiment_id)]

\* _add_observations counting the rows of every experiment.
AddObservationsCountingAll(database, observations, experiment_id) ==
    LET Matches(row) == row.experiment_id = experiment_id
        returned_experiment_id == FirstKey({k \in 1..Len(database.observations) : Matches(database.observations[k])})
        observation_table ==
            IF returned_experiment_id = 0
            THEN database.observations \o ObservationRows(observations, experiment_id)
            ELSE database.observations
        temperature_table ==
            IF returned_experiment_id = 0
            THEN database.temperatures \o TemperatureRows(observations, experiment_id)
            ELSE database.temperatures
    IN  [observation_table |-> observation_table,
         temperature_table |-> temperature_table,
         observations |-> Len(observation_table),
         temperatures |-> Len(temperature_table)]

\* ExperimentAccess._add_observations: nothing is inserted when the
\* experiment has an observation already; the counts returned are those
\* of the rows of the experiment after the call.
AddObservations(database, observations, experiment_id) ==
    LET Matches(row) == row.experiment_id = experiment_id
        returned_experiment_id == FirstKey({k \in 1..Len(database.observations) : Matches(database.observations[k])})
        observation_table ==
            IF returned_experiment_id = 0
            THEN database.observations \o ObservationRows(observations, experiment_id)
            ELSE database.observations
        temperature_table ==
            IF returned_experiment_id = 0
            THEN database.temperatures \o TemperatureRows(observations, experiment_id)
            ELSE database.temperatures
    IN  [observation_table |-> observation_table,
         temperature_table |-> temperature_table,
         observations |-> CountFor(observation_table, experiment_id),
         temperatures |-> CountFor(temperature_table, experiment_id)]

\* ExperimentAccess.add_raw_data: the database after the call and the
\* value returned.
AddRawData(database, data_specs) ==
    LET tube_id == data_specs.experiment.tube_id
        tube == tube_id \in 1..Len(database.tubes)
        setting == AddSetting(database.settings, data_specs.setting)
        experiment == AddExperiment(database.experiments, data_specs.experiment, setting.key)
        observations_dict == AddObservations(database, data_specs.observations, experiment.key)
    IN  IF ~tube
        THEN [db |-> database, result |-> None]
        ELSE [db |-> [database EXCEPT !.settings = setting.table,
                                      !.experiments = experiment.table,
                                      !.observations = observations_dict.observation_table,
                                      !.temperatures = observations_dict.temperature_table],
              result |-> [status |-> "ok",
                          tube_id |-> tube_id,
                          setting_id |-> setting.key,
                          experiment_id |-> experiment.key,
                          observations |-> observations_dict.observations,
                          temperatures |-> observations_dict.temperatures]]

\* The tube of the test fixtures, in units of the last stored digit, and
\* the tubes that differ from it in exactly one attribute.
FixtureTube == [inner_diameter |-> 1000, outer_diameter |-> 2000, height |-> 3000,
                material |-> "test_material", mass |-> 4000000]

TubeSpecs ==
    {FixtureTube,
     [FixtureTube EXCEPT !.inner_diameter = 300],
     [FixtureTube EXCEPT !.outer_diameter = 400],
     [FixtureTube EXCEPT !.height = 600],
     [FixtureTube EXCEPT !.material = "Delrin"],
     [FixtureTube EXCEPT !.mass = 567800]}

\* State after ExperimentAccess.__init__ on a new database.
TubeInit ==
    /\ db = EmptyDb
    /\ access = NoCall
    /\ ref_state = None
    /\ film_call = NoCall
    /\ build_instructions = <<>>
    /\ cursor = <<>>
    /\ crud = NoCall
    /\ pc = "access"
    /\ time = <<>>
    /\ m = <<>>
    /\ idx = InitialIdx
    /\ fits = <<>>
    /\ sample = <<>>
    /\ steps = InitialSteps
    /\ this_sample = <<>>
    /\ fit = None
    /\ this_fit = None
    /\ iterations = 0
    /\ fitted = 0
    /\ examined = {}
    /\ call = "earlier"
    /\ counter = 0
    /\ fit_table = <<>>

\* ExperimentAccess._add_tube(tube_spec)
AddTubeCall ==
    /\ pc = "access"
    /\ \E tube_spec \in TubeSpecs :
        LET added == AddTube(db.tubes, tube_spec)
        IN  /\ Len(added.table) <= MaxTubes
            /\ db' = [db EXCEPT !.tubes = added.table]
            /\ access' = [op |-> "_add_tube", arg |-> tube_spec, result |-> added.key]
    /\ UNCHANGED <<pc, engine_vars, crud_vars, ref_state, film_call>>

\* ExperimentalAccess.add_pool(pool_spec)
AddPoolCall ==
    /\ pc = "access"
    /\ \E pool_spec \in TubeSpecs :
        LET added == AddTube(db.pools, pool_spec)
        IN  /\ Len(added.table) <= MaxTubes
            /\ db' = [db EXCEPT !.pools = added.table]
            /\ access' = [op |-> "add_pool", arg |-> pool_spec, result |-> added.key]
    /\ UNCHANGED <<pc, engine_vars, crud_vars, ref_state, film_call>>

TubeNext ==
    \/ AddTubeCall
    \/ AddPoolCall

TubeSpec == TubeInit /\ [][TubeNext]_vars

\* The DataSpec objects handed to add_raw_data: two settings, two
\* datetimes, the tube ids 1 and 2, and up to MaxObservations observations
\* of up to MaxThermocouples temperatures each.
SettingSpecs ==
    {[duty |-> 0, pressure |-> p, temperature |-> 290, time_step |-> 1] : p \in {99000, 101325}}

ExperimentSpecs ==
    {[author |-> "RHI", datetime |-> d, description |-> "The description is descriptive.",
      tube_id |-> t] : d \in 1..2, t \in 1..2}

ObservationSpecs ==
    {[i \in 1..n |-> [idx |-> i - 1,
                      mass |-> MassStep,
                      temperatures |-> [t \in 1..k |->
                          [thermocouple_num |-> t - 1, temperature |-> 300, idx |-> i - 1]]]] :
     n \in 0..MaxObservations, k \in 1..MaxThermocouples}

DataSpecs ==
    {[setting |-> s, experiment |-> e, observations |-> o] :
     s \in SettingSpecs, e \in ExperimentSpecs, o \in ObservationSpecs}

\* State after ExperimentAccess.__init__ on a database that holds no
\* tube or the one tube of the fixtures.
RawDataInit ==
    /\ db \in {EmptyDb, [EmptyDb EXCEPT !.tubes = <<FixtureTube>>]}
    /\ access = NoCall
    /\ ref_state = None
    /\ film_call = NoCall
    /\ build_instructions = <<>>
    /\ cursor = <<>>
    /\ crud = NoCall
    /\ pc = "access"
    /\ time = <<>>
    /\ m = <<>>
    /\ idx = InitialIdx
    /\ fits = <<>>
    /\ sample = <<>>
    /\ steps = InitialSteps
    /\ this_sample = <<>>
    /\ fit = None
    /\ this_fit = None
    /\ iterations = 0
    /\ fitted = 0
    /\ examined = {}
    /\ call = "earlier"
    /\ counter = 0
    /\ fit_table = <<>>

\* ExperimentAccess.add_raw_data(data_specs)
AddRawDataCall ==
    /\ pc = "access"
    /\ \E data_specs \in DataSpecs :
        LET added == AddRawData(db, data_specs)
        IN  /\ db' = added.db
            /\ access' = [op |-> "add_raw_data", arg |-> data_specs, result |-> added.result]
    /\ UNCHANGED <<pc, engine_vars, crud_vars, ref_state, film_call>>

RawDataNext == AddRawDataCall

RawDataSpec == RawDataInit /\ [][RawDataNext]_vars

\* The experiment ids handed to _add_observations.
ExperimentIds == 1..2

\* ExperimentAccess._add_observations(observations, experiment_id)
AddObservationsCall ==
    /\ pc = "access"
    /\ \E observations \in ObservationSpecs, experiment_id \in ExperimentIds :
        LET added == AddObservations(db, observations, experiment_id)
        IN  /\ db' = [db EXCEPT !.observations = added.observation_table,
                                !.temperatures = added.temperature_table]
            /\ access' = [op |-> "_add_observations",
                          arg |-> [observations |-> observations, experiment_id |-> experiment_id],
                          result |-> [observations |-> added.observations,
                                      temperatures |-> added.temperatures]]
    /\ UNCHANGED <<pc, engine_vars, crud_vars, ref_state, film_call>>

ObservationNext == AddObservationsCall

\* _add_observations called on its own, on the databases of RawDataInit.
ObservationSpec == RawDataInit /\ [][ObservationNext]_vars

\* The experiments table: _add_experiment and add_experiment called on
\* their own.

MaxExperiments == 3     \* most rows of an Experiment table

\* ExperimentalAccess.add_experiment: as _add_experiment, with the pool
\* and the setting taken from the specification.
AddPoolExperiment(experiments, experiment_spec) ==
    LET Matches(row) == row.datetime = experiment_spec.datetime
        experiment_id == FirstKey({k \in 1..Len(experiments) : Matches(experiments[k])})
    IN  IF experiment_id = 0
        THEN [table |-> Append(experiments, [author      |-> experiment_spec.author,
                                             datetime    |-> experiment_spec.datetime,
                                             description |-> experiment_spec.description,
                                             pool_id     |-> experiment_spec.pool_id,
                                             setting_id  |-> experiment_spec.setting_id]),
              key   |-> Len(experiments) + 1]
        ELSE [table |-> experiments, key |-> experiment_id]

\* The specifications handed to _add_experiment and to add_experiment:
\* two authors, two datetimes, two tubes, and the setting ids 1 and 2.
ExperimentArguments ==
    {[author |-> a, datetime |-> d, description |-> "The description is descriptive.",
      tube_id |-> t] : a \in {"RHI", "ADL"}, d \in 1..2, t \in 1..2}

PoolExperimentArguments ==
    {[author |-> a, datetime |-> d, description |-> "The description is descriptive.",
      pool_id |-> 1, setting_id |-> s] : a \in {"RHI", "ADL"}, d \in 1..2, s \in 1..2}

SettingIds == 1..2

\* ExperimentAccess._add_experiment(experiment_spec, setting_id)
AddExperimentCall ==
    /\ pc = "access"
    /\ \E experiment_spec \in ExperimentArguments, setting_id \in SettingIds :
        LET added == AddExperiment(db.experiments, experiment_spec, setting_id)
        IN  /\ Len(added.table) <= MaxExperiments
            /\ db' = [db EXCEPT !.experiments = added.table]
            /\ access' = [op |-> "_add_experiment",
                          arg |-> [experiment_spec |-> experiment_spec, setting_id |-> setting_id],
                          result |-> added.key]
    /\ UNCHANGED <<pc, engine_vars, crud_vars, ref_state, film_call>>

\* ExperimentalAccess.add_experiment(experiment_spec)
AddPoolExperimentCall ==
    /\ pc = "access"
    /\ \E experiment_spec \in PoolExperimentArguments :
        LET added == AddPoolExperiment(db.pool_experiments, experiment_spec)
        IN  /\ Len(added.table) <= MaxExperiments
            /\ db' = [db EXCEPT !.pool_experiments = added.table]
            /\ access' = [op |-> "add_experiment", arg |-> experiment_spec, result |-> added.key]
    /\ UNCHANGED <<pc, engine_vars, crud_vars, ref_state, film_call>>

ExperimentNext ==
    \/ AddExperimentCall
    \/ AddPoolExperimentCall

\* Both access objects after __init__ on new databases (TubeInit).
ExperimentTableSpec == TubeInit /\ [][ExperimentNext]_vars

----------------------------------------------------------------------------
(* The CRUD manager: _execute_build and _execute_drop of manager/crud.py *)

MaxTables == 3          \* most tables of a table group
MaxStatements == 6      \* most statements followed on one cursor

\* The table groups, the table names and the DDL of the unit tests.
TableGroups == {"group", "experiments"}

TableNames == {"one", "two", "three"}

Ddl == [table \in TableNames |->
            CASE table = "one" -> "foo"
              [] table = "two" -> "bar"
              [] OTHER -> "bacon!"]

\* The table orders of a group: every list of distinct table names.
TableOrders ==
    UNION {{order \in [1..n -> TableNames] :
                \A i, j \in 1..n : i # j => order[i] # order[j]} : n \in 0..MaxTables}

\* table_order[::-1]
Reversed(table_order) ==
    [i \in 1..Len(table_order) |-> table_order[Len(table_order) - i + 1]]

\* The statements of _execute_drop executed in the order of table_order.
ExecuteDropInOrder(table_group, instructions) ==
    LET table_order == instructions[table_group].table_order
    IN  [executed |-> [i \in 1..Len(table_order) |->
                          <<"DROP TABLE ", table_order[i], ";">>],
         message  |-> <<"Successfully dropped ", table_group, " tables.">>]

\* crud._execute_build(cursor, table_group): the statements handed to
\* cursor.execute, in order, and the message returned (the pieces of the
\* formatted string, the back quotes about the group's name left out).
ExecuteBuild(table_group, instructions) ==
    LET table_order == instructions[table_group].table_order
        ddl == instructions[table_group].ddl
    IN  [executed |-> [i \in 1..Len(table_order) |-> ddl[table_order[i]]],
         message  |-> <<"Successfully built ", table_group, " tables.">>]

\* crud._execute_drop(cursor, table_group)
ExecuteDrop(table_group, instructions) ==
    LET table_order == instructions[table_group].table_order
        reversed_table_order == Reversed(table_order)
    IN  [executed |-> [i \in 1..Len(reversed_table_order) |->
                          <<"DROP TABLE ", reversed_table_order[i], ";">>],
         message  |-> <<"Successfully dropped ", table_group, " tables.">>]

\* The module chamber.utility.ddl is loaded and a cursor is connected.
CrudInit ==
    /\ build_instructions \in [TableGroups -> [table_order : TableOrders, ddl : {Ddl}]]
    /\ cursor = <<>>
    /\ crud = NoCall
    /\ pc = "crud"
    /\ db = EmptyDb
    /\ access = NoCall
    /\ ref_state = None
    /\ film_call = NoCall
    /\ time = <<>>
    /\ m = <<>>
    /\ idx = InitialIdx
    /\ fits = <<>>
    /\ sample = <<>>
    /\ steps = InitialSteps
    /\ this_sample = <<>>
    /\ fit = None
    /\ this_fit = None
    /\ iterations = 0
    /\ fitted = 0
    /\ examined = {}
    /\ call = "earlier"
    /\ counter = 0
    /\ fit_table = <<>>

\* _execute_build(cursor, table_group); 'before' is the number of
\* statements the cursor had executed when the call began.
ExecuteBuildCall ==
    /\ pc = "crud"
    /\ \E table_group \in TableGroups :
        LET built == ExecuteBuild(table_group, build_instructions)
        IN  /\ Len(cursor) + Len(built.executed) <= MaxStatements
            /\ cursor' = cursor \o built.executed
            /\ crud' = [op |-> "_execute_build", arg |-> table_group,
                        before |-> Len(cursor), result |-> built.message]
    /\ UNCHANGED <<pc, engine_vars, build_instructions, db, access, ref_state, film_call>>

\* _execute_drop(cursor, table_group)
ExecuteDropCall ==
    /\ pc = "crud"
    /\ \E table_group \in TableGroups :
        LET dropped == ExecuteDrop(table_group, build_instructions)
        IN  /\ Len(cursor) + Len(dropped.executed) <= MaxStatements
            /\ cursor' = cursor \o dropped.executed
            /\ crud' = [op |-> "_execute_drop", arg |-> table_group,
                        before |-> Len(cursor), result |-> dropped.message]
    /\ UNCHANGED <<pc, engine_vars, build_instructions, db, access, ref_state, film_call>>

CrudNext ==
    \/ ExecuteBuildCall
    \/ ExecuteDropCall

CrudSpec == CrudInit /\ [][CrudNext]_vars

----------------------------------------------------------------------------
(* The film state: film.use_rule, models2.ReferenceState and the film       *)
(* temperature of AnalysisEngine._set_local_properties.  Temperatures are  *)
(* whole kelvins; a film value is the pair <<numerator, denominator>>.     *)

\* The rule names of film.use_rule and those of ReferenceState.change_rule,
\* and the correlation names of Properties.change_ref.
FilmRules == {"1/2", "1/3"}

ReferenceRules == {"one-half", "one-third"}

References == {"Mills", "Marrero"}

\* Names handed to the calls: the valid ones and the invalid ones of the
\* tests.
RuleArguments == FilmRules \cup {"1/4"}

ChangeRuleArguments == ReferenceRules \cup {"one"}

ChangeRefArguments == References \cup {"ref"}

\* Ambient values e and surface values s handed to use_rule, the surface
\* temperature guesses, and the mean temperatures of a fitted sample.
AmbientValues == {1, 291, 300}

SurfaceValues == {0, 285, 290}

Guesses == {285, 300}

\* film.use_rule(e_value, s_value, rule): '1/2' is the mean of the two
\* values, '1/3' lies a third of the way from the surface value to the
\* ambient value; any other name raises ValueError.
UseRule(e_value, s_value, rule) ==
    IF rule = "1/2" THEN <<e_value + s_value, 2>>
    ELSE IF rule = "1/3" THEN <<(3 * s_value) + (e_value - s_value), 3>>
    ELSE ValueError

\* ReferenceState._use_rule(e_value, s_value) under self.rule
ReferenceUseRule(e_value, s_value, rule) ==
    IF rule = "one-half" THEN <<e_value + s_value, 2>>
    ELSE <<(3 * s_value) + (e_value - s_value), 3>>

\* ReferenceState._eval: the film state of the object rs is evaluated
\* again from its ts_guess, its ExperimentalState, its rule and the
\* correlation of its Properties: xe at the dew point, xs at the guess,
\* t_film and x_film by the rule, and the properties at (p, t_film,
\* x_film).  Saturation pressures and property correlations are kept
\* symbolic.
Eval(rs) ==
    LET exp == rs.exp_state
        xe == [sat_at |-> exp.tdp, p |-> exp.p]
        xs == [sat_at |-> rs.ts_guess, p |-> exp.p]
        t_film == ReferenceUseRule(exp.tm, rs.ts_guess, rs.rule)
        x_film == [rule |-> rs.rule, e |-> xe, s |-> xs]
    IN  [rs EXCEPT !.xe = xe,
                   !.xs = xs,
                   !.p_film = exp.p,
                   !.t_film = t_film,
                   !.x_film = x_film,
                   !.props = [at  |-> [p |-> exp.p, t |-> t_film, x |-> x_film],
                              d12 |-> [ref |-> rs.ref, p |-> exp.p, t |-> t_film]]]

\* models2.ReferenceState(ts_guess, exp_state): rule 'one-third',
\* correlation 'Mills', p_film and t_film set, the rest not evaluated.
ReferenceState(ts_guess, exp_state) ==
    [ts_guess  |-> ts_guess,
     exp_state |-> exp_state,
     rule      |-> "one-third",
     ref       |-> "Mills",
     p_film    |-> exp_state.p,
     t_film    |-> ReferenceUseRule(exp_state.tm, ts_guess, "one-third"),
     x_film    |-> None,
     xe        |-> None,
     xs        |-> None,
     props     |-> None]

\* The ExperimentalState objects of the tests.
ExperimentalStates ==
    {[p |-> 80000, tch |-> 290, tdp |-> 280, tm |-> 291],
     [p |-> 90000, tch |-> 290, tdp |-> 284, tm |-> 290]}

\* State after ReferenceState(TS_GUESS, EXP_STATE).
FilmInit ==
    /\ \E exp_state \in ExperimentalStates, ts_guess \in Guesses :
        ref_state = ReferenceState(ts_guess, exp_state)
    /\ film_call = NoCall
    /\ build_instructions = <<>>
    /\ cursor = <<>>
    /\ crud = NoCall
    /\ pc = "film"
    /\ db = EmptyDb
    /\ access = NoCall
    /\ time = <<>>
    /\ m = <<>>
    /\ idx = InitialIdx
    /\ fits = <<>>
    /\ sample = <<>>
    /\ steps = InitialSteps
    /\ this_sample = <<>>
    /\ fit = None
    /\ this_fit = None
    /\ iterations = 0
    /\ fitted = 0
    /\ examined = {}
    /\ call = "earlier"
    /\ counter = 0
    /\ fit_table = <<>>

\* film.use_rule(e_value, s_value, rule)
UseRuleCall ==
    /\ pc = "film"
    /\ \E e_value \in AmbientValues, s_value \in SurfaceValues, rule \in RuleArguments :
        film_call' = [op |-> "use_rule",
                      arg |-> [e_value |-> e_value, s_value |-> s_value, rule |-> rule],
                      result |-> UseRule(e_value, s_value, rule)]
    /\ UNCHANGED <<pc, engine_vars, crud_vars, db, access, ref_state>>

\* change_rule assigning the name before it is validated.
ChangeRuleAssignsFirst ==
    /\ pc = "film"
    /\ \E rule \in ChangeRuleArguments :
        /\ ref_state' = [ref_state EXCEPT !.rule = rule]
        /\ film_call' = [op |-> "change_rule", arg |-> rule,
                          result |-> IF rule \in ReferenceRules THEN [status |-> "True"]
                                     ELSE ValueError]
    /\ UNCHANGED <<pc, engine_vars, crud_vars, db, access>>

\* ReferenceState.change_rule(rule): a valid name is set and True is
\* returned; another name raises ValueError and nothing is set.
ChangeRule ==
    /\ pc = "film"
    /\ \E rule \in ChangeRuleArguments :
        IF rule \in ReferenceRules
        THEN /\ ref_state' = [ref_state EXCEPT !.rule = rule]
             /\ film_call' = [op |-> "change_rule", arg |-> rule, result |-> [status |-> "True"]]
        ELSE /\ ref_state' = ref_state
             /\ film_call' = [op |-> "change_rule", arg |-> rule, result |-> ValueError]
    /\ UNCHANGED <<pc, engine_vars, crud_vars, db, access>>

\* Properties.change_ref(ref) on the Properties of the reference state.
ChangeRef ==
    /\ pc = "film"
    /\ \E ref \in ChangeRefArguments :
        IF ref \in References
        THEN /\ ref_state' = [ref_state EXCEPT !.ref = ref]
             /\ film_call' = [op |-> "change_ref", arg |-> ref, result |-> [status |-> "True"]]
        ELSE /\ ref_state' = ref_state
             /\ film_call' = [op |-> "change_ref", arg |-> ref, result |-> ValueError]
    /\ UNCHANGED <<pc, engine_vars, crud_vars, db, access>>

\* update leaving the surface mole fraction of the earlier guess in place
\* once it has been evaluated.
UpdateKeepsXs ==
    /\ pc = "film"
    /\ \E ts_guess \in Guesses :
        /\ ref_state' =
                IF ref_state.xs = None
                THEN Eval([ref_state EXCEPT !.ts_guess = ts_guess])
                ELSE [Eval([ref_state EXCEPT !.ts_guess = ts_guess]) EXCEPT !.xs = ref_state.xs]
        /\ film_call' = [op |-> "update", arg |-> ts_guess, result |-> [status |-> "True"]]
    /\ UNCHANGED <<pc, engine_vars, crud_vars, db, access>>

\* ReferenceState.update(ts_guess): the guess is replaced, the film state
\* and the properties are evaluated again, True is returned.
Update ==
    /\ pc = "film"
    /\ \E ts_guess \in Guesses :
        /\ ref_state' = Eval([ref_state EXCEPT !.ts_guess = ts_guess])
        /\ film_call' = [op |-> "update", arg |-> ts_guess, result |-> [status |-> "True"]]
    /\ UNCHANGED <<pc, engine_vars, crud_vars, db, access>>

\* AnalysisEngine._set_local_properties, line 391: the film temperature
\* T = (Te + Ts) / 2 of the means Te and Ts of the fitted sample.
SetLocalProperties ==
    /\ pc = "film"
    /\ \E Te \in AmbientValues, Ts \in SurfaceValues :
        film_call' = [op |-> "_set_local_properties",
                      arg |-> [Te |-> Te, Ts |-> Ts],
                      result |-> [T |-> <<Te + Ts, 2>>]]
    /\ UNCHANGED <<pc, engine_vars, crud_vars, db, access, ref_state>>

\* The experimental state of a fitted sample.  Temperatures are counted in
\* hundredths of a kelvin, pressures in pascals; a mean is the pair
\* <<numerator, denominator>>.  Nominal values only: the uncertainties of
\* the ufloats are not modelled.

MaxWindow == 3          \* most rows of the sample that is averaged

Offset == 27315         \* offset = 273.15
CalibrationA == -234    \* self._a = ufloat(-2.34, 0.07)
CalibrationBNum == 10445    \* self._b = ufloat(1.0445, 0.0022)
CalibrationBDen == 10000

\* The rows of self._this_sample: columns Ts, Te, Tdp and P.
Readings ==
    {[Ts |-> s, Te |-> d.Te, Tdp |-> d.Tdp, P |-> d.P] :
        s \in {28815, 29015, 29515},
        d \in {[Te |-> 29000, Tdp |-> 28000, P |-> 99000],
               [Te |-> 30000, Tdp |-> 28500, P |-> 101325]}}

Windows == UNION {[1..n -> Readings] : n \in 1..MaxWindow}

\* _set_local_exp_state storing the mean surface temperature as it was
\* read, without the calibration.
LocalExpStateUncalibrated(data) ==
    LET samples == Len(data)
    IN  [Te  |-> <<SumSeq([i \in 1..samples |-> data[i].Te]), samples>>,
         Tdp |-> <<SumSeq([i \in 1..samples |-> data[i].Tdp]), samples>>,
         Ts  |-> <<CalibrationBDen * SumSeq([i \in 1..samples |-> data[i].Ts]),
                   CalibrationBDen * samples>>,
         P   |-> <<SumSeq([i \in 1..samples |-> data[i].P]), samples>>]

\* AnalysisEngine._set_local_exp_state: self._experimental_state for the
\* sample 'data'.  Ts: the mean in kelvin, less the offset, through
\* a + b*Ts_bar_C, plus the offset.
LocalExpState(data) ==
    LET samples == Len(data)
        sum_Ts == SumSeq([i \in 1..samples |-> data[i].Ts])
        \* Ts_bar_K = sum(data.Ts)/samples
        Ts_bar_K == <<sum_Ts, samples>>
        \* Ts_bar_C = Ts_bar_K - offset
        Ts_bar_C == <<Ts_bar_K[1] - (Offset * samples), samples>>
        \* Ts_bar_C = self._a + self._b*Ts_bar_C
        calibrated == <<(CalibrationA * CalibrationBDen * samples)
                            + (CalibrationBNum * Ts_bar_C[1]),
                        CalibrationBDen * samples>>
        \* Ts_bar_K = Ts_bar_C + offset
        calibrated_K == <<calibrated[1] + (Offset * calibrated[2]), calibrated[2]>>
    IN  [Te  |-> <<SumSeq([i \in 1..samples |-> data[i].Te]), samples>>,
         Tdp |-> <<SumSeq([i \in 1..samples |-> data[i].Tdp]), samples>>,
         Ts  |-> calibrated_K,
         P   |-> <<SumSeq([i \in 1..samples |-> data[i].P]), samples>>]

\* AnalysisEngine._set_local_exp_state() on a sample
SetLocalExpState ==
    /\ pc = "film"
    /\ \E data \in Windows :
        film_call' = [op |-> "_set_local_exp_state",
                      arg |-> data,
                      result |-> LocalExpState(data)]
    /\ UNCHANGED <<pc, engine_vars, crud_vars, db, access, ref_state>>

FilmNext ==
    \/ UseRuleCall
    \/ ChangeRule
    \/ ChangeRef
    \/ Update
    \/ SetLocalProperties

FilmSpec == FilmInit /\ [][FilmNext]_vars

\* State after AnalysisEngine.__init__, before a sample is averaged.
ExpStateInit ==
    /\ ref_state = None
    /\ film_call = NoCall
    /\ build_instructions = <<>>
    /\ cursor = <<>>
    /\ crud = NoCall
    /\ pc = "film"
    /\ db = EmptyDb
    /\ access = NoCall
    /\ time = <<>>
    /\ m = <<>>
    /\ idx = InitialIdx
    /\ fits = <<>>
    /\ sample = <<>>
    /\ steps = InitialSteps
    /\ this_sample = <<>>
    /\ fit = None
    /\ this_fit = None
    /\ iterations = 0
    /\ fitted = 0
    /\ examined = {}
    /\ call = "earlier"
    /\ counter = 0
    /\ fit_table = <<>>

ExpStateNext == SetLocalExpState

ExpStateSpec == ExpStateInit /\ [][ExpStateNext]_vars

----------------------------------------------------------------------------
(* The regressors called on their own *)

MaxRegN == 3        \* longest series handed to a regressor on its own
MaxX == 2           \* largest x value handed to chi2.chi2

XValues == 0..MaxX

\* chi2.chi2(x, y, sigma, plot=False) with sigma = 1 (masses in sigma):
\* the tuple (a, sigma_a, b, sigma_b, chi2, q), or the ZeroDivisionError
\* raised by _a when delta_res == 0.0.
Chi2(x, y) ==
    LET n == Len(x)
        s_res == n
        sx_res == SumSeq([i \in 1..n |-> x[i]])
        sy_res == SumSeq([i \in 1..n |-> y[i]])
        sxx_res == SumSeq([i \in 1..n |-> x[i] * x[i]])
        sxy_res == SumSeq([i \in 1..n |-> x[i] * y[i]])
        delta_res == s_res * sxx_res - sx_res * sx_res
        a_num == sxx_res * sy_res - sx_res * sxy_res
        b_num == s_res * sxy_res - sx_res * sy_res
        chi2_res == SumSq([i \in 1..n |-> y[i] * delta_res - a_num - b_num * x[i]], delta_res)
    IN  IF delta_res = 0 THEN ZeroDivisionError
        ELSE [status  |-> "ok",
              a       |-> <<a_num, delta_res>>,
              sigma_a |-> <<sxx_res, delta_res>>,
              b       |-> <<b_num, delta_res>>,
              sigma_b |-> <<s_res, delta_res>>,
              chi2    |-> chi2_res,
              q       |-> Chi2Sf(chi2_res, n - 2)]

\* An engine whose self._this_sample holds all rows of a series of any
\* length, and the arguments x (held in time) and y (held in m) of chi2.chi2.
RegInit ==
    /\ \E n \in 0..MaxRegN :
        /\ time \in [1..n -> XValues]
        /\ m \in [1..n -> MassValues]
        /\ this_sample = Range(n)
    /\ idx = InitialIdx
    /\ fits = <<>>
    /\ sample = <<>>
    /\ steps = InitialSteps
    /\ fit = None
    /\ this_fit = None
    /\ pc = "regress"
    /\ iterations = 0
    /\ fitted = 0
    /\ examined = {}
    /\ call = "earlier"
    /\ counter = 0
    /\ fit_table = <<>>
    /\ db = EmptyDb
    /\ access = NoCall
    /\ ref_state = None
    /\ film_call = NoCall
    /\ build_instructions = <<>>
    /\ cursor = <<>>
    /\ crud = NoCall

\* AnalysisEngine._ols_fit() on self._this_sample
OlsFitCall ==
    /\ pc = "regress"
    /\ fit' = OlsFit(MassOf(this_sample))
    /\ pc' = "ols_fit"
    /\ UNCHANGED <<crud_vars, ref_state, film_call, db, access, time, m, fitted, examined, call, counter, fit_table, iterations, idx, fits, sample, steps, this_sample, this_fit>>

\* chi2.chi2(x, y, sigma)
Chi2Call ==
    /\ pc = "regress"
    /\ fit' = Chi2(time, m)
    /\ pc' = "chi2"
    /\ UNCHANGED <<crud_vars, ref_state, film_call, db, access, time, m, fitted, examined, call, counter, fit_table, iterations, idx, fits, sample, steps, this_sample, this_fit>>

\* AnalysisEngine._evaluate_fit() on the fit that _ols_fit returned
EvaluateFitCall ==
    /\ pc = "ols_fit"
    /\ fit.status = "ok"
    /\ this_fit' = EvaluateFit(fit, MassOf(this_sample), ExperimentId, idx)
    /\ pc' = "evaluate_fit"
    /\ UNCHANGED <<crud_vars, ref_state, film_call, db, access, time, m, fitted, examined, call, counter, fit_table, iterations, idx, fits, sample, steps, this_sample, fit>>

RegNext ==
    \/ OlsFitCall
    \/ Chi2Call
    \/ EvaluateFitCall

RegSpec == RegInit /\ [][RegNext]_vars

TypeOK ==
    /\ pc \in {"while", "search", "test", "returned", "done", "raised",
              "persist", "persisted", "access", "film", "crud",
              "regress", "ols_fit", "chi2", "evaluate_fit"}
    /\ call \in {"earlier", "later"}
    /\ counter \in 0..Len(fits)
    /\ idx \in Nat
    /\ steps \in Nat
    /\ iterations \in 0..MaxIterations
    /\ fitted \in Nat
    /\ examined \subseteq 0..(NObs - 1)
    /\ Len(cursor) <= MaxStatements

----------------------------------------------------------------------------
(* Definitions shared by the properties *)

\* i < j in the result list
FitIndexes == 1..Len(fits)

\* |sig_b / b| <= error for a stored fit f, from the stored values:
\* sig_b**2 = f.sig_b[1]/f.sig_b[2] and b = f.b[1]/f.b[2] over the same
\* positive denominator.
RelErrorWithin(f) ==
    /\ f.b[2] > 0
    /\ f.sig_b[2] = f.b[2]
    /\ ErrorDen * ErrorDen * f.sig_b[1] * f.b[2] <= ErrorNum * ErrorNum * f.b[1] * f.b[1]

\* The symmetric sub-window of half-width s about the centre of the sample.
SubWindowAt(s) == ILoc(sample, center - s, center + s + 1)

\* The half-widths the inner search tries before it reaches 'steps'.
TriedBefore == {s \in 1..(steps - 1) : s >= InitialSteps /\ (s - InitialSteps) % delta = 0}

\* The rows of the window a stored fit was made on: the sub-window of
\* half-width (nu + 1) / 2 of the max slice taken at the fit's idx.
WindowOf(f) ==
    LET smp == Loc((2 * f.idx) - NObs + 1, 2 * f.idx)
        c == Len(smp) \div 2
        s == (f.nu + 1) \div 2
    IN  {smp[k] : k \in (c - s + 1)..(c + s + 1)}

Contiguous == \A i \in 1..NObs : time[i] = i - 1

----------------------------------------------------------------------------
(* C1 *)

\* C1: every fit in the result list has slope b # 0 and relative slope
\* uncertainty sig_b/|b| <= 0.01, and has nu = window length - 2 >= 1, so
\* that no accepted window has fewer than 3 points.
AcceptedFitsMeetThreshold ==
    /\ \A i \in FitIndexes :
        /\ fits[i].b[1] # 0
        /\ RelErrorWithin(fits[i])
        /\ fits[i].nu >= 1
        /\ fits[i].nu = fits[i].sig_b[1] - 2
    /\ (pc = "while" /\ this_fit # None) =>
        /\ Len(fits) >= 1
        /\ this_fit = fits[Len(fits)]
        /\ this_fit.nu = Len(this_sample) - 2
        /\ Len(this_sample) >= 3

\* A fit on the smallest window, three points, has been appended.
AcceptedThreePointFit ==
    /\ pc = "while"
    /\ Len(fits) >= 1
    /\ fits[Len(fits)].nu = 1
    /\ Len(this_sample) = 3

----------------------------------------------------------------------------
(* C2 - C4 *)

\* C2: for any finite series with integer monotonic time indices the scan
\* terminates: the loop 'while idx < N - 2' is left after finitely many
\* iterations, at most on the order of N; here: no scan begins more than N
\* iterations of the loop.
ScanTerminates == iterations <= NObs

\* C3: after every iteration of the outer loop, whether a window was
\* accepted or no fit was found, the scan pointer is strictly greater than
\* before the iteration.
PointerStrictlyIncreases == [][pc = "returned" => idx' > idx]_vars

\* WindowOf names the rows the fit was made on: right after an append the
\* window of the last fit is self._this_sample.
WindowOfIsThisSample ==
    (pc = "while" /\ this_fit # None) =>
        WindowOf(fits[Len(fits)]) = {this_sample[k] : k \in 1..Len(this_sample)}

\* C4: the windows accepted during one scan are pairwise non-overlapping:
\* no observation belongs to the windows of two fits of the result list
\* (stated here for the series with contiguous time indices).
AcceptedWindowsDisjoint ==
    Contiguous =>
        \A i, j \in FitIndexes :
            i < j => WindowOf(fits[i]) \cap WindowOf(fits[j]) = {}

----------------------------------------------------------------------------
(* C5 - C7 *)

\* C5: the inner search accepts the smallest symmetric sub-window about the
\* centre that meets the threshold: when it accepts at half-width 'steps',
\* every smaller half-width of the growth sequence was fitted and had slope
\* 0 or sig_b/|b| > error, and no wider sub-window is examined after the
\* acceptance.
SmallestWindowIsAccepted ==
    /\ [](pc = "returned" /\ this_fit # None =>
            /\ this_sample = SubWindowAt(steps)
            /\ this_fit = OlsFit(MassOf(this_sample))
            /\ RelErrorWithin(this_fit)
            /\ \A s \in TriedBefore :
                LET f == OlsFit(MassOf(SubWindowAt(s)))
                IN  f.status = "ok" /\ (f.b[1] = 0 \/ ~RelErrorWithin(f)))
    /\ [][pc = "test" /\ pc' = "returned" =>
            steps' = steps /\ this_sample' = this_sample /\ this_fit' = fit]_vars
    /\ [][pc = "returned" /\ this_fit # None => pc' \notin {"search", "test"}]_vars

\* The search has accepted a window after rejecting a narrower one.
AcceptedAfterWidening ==
    /\ pc = "returned"
    /\ this_fit # None
    /\ steps >= 2
    /\ Len(this_sample) = 2 * steps + 1

\* C6: when no symmetric sub-window of the candidate sample meets the
\* threshold the inner search yields None, not an exception; in that
\* iteration no fit is appended, the pointer advances by exactly the length
\* of the candidate sample, and the scan goes on with the loop test.
NoFitSkipsTheSample ==
    /\ [](pc = "returned" =>
            (this_fit = None <=>
                \A s \in 1..Len(sample) :
                    center + s + 1 <= Len(sample) =>
                        LET f == OlsFit(MassOf(SubWindowAt(s)))
                        IN  f.status = "ok" /\ (f.b[1] = 0 \/ ~RelErrorWithin(f))))
    /\ [](pc # "raised")
    /\ [][pc = "returned" /\ this_fit = None =>
            /\ idx' = idx + Len(sample)
            /\ fits' = fits
            /\ pc' = "while"]_vars

\* A sample of three rows was searched without a fit and skipped, and the
\* loop goes on to another iteration.
SkippedAndGoingOn ==
    /\ pc = "while"
    /\ this_fit = None
    /\ fits = <<>>
    /\ Len(sample) = 3
    /\ idx = InitialIdx + 3
    /\ idx < NObs - 2

\* C7: a sub-window whose fitted slope is exactly 0 is never accepted and
\* never raises: the search widens the window by delta and continues, and
\* the scan never ends in an exception.
ZeroSlopeWidens ==
    /\ [][pc = "test" /\ fit.b[1] = 0 =>
            /\ steps' = steps + delta
            /\ pc' = "search"
            /\ this_fit' = this_fit
            /\ fits' = fits]_vars
    /\ [](pc # "raised")
    /\ [](\A i \in FitIndexes : fits[i].b[1] # 0)
    /\ [](pc = "returned" /\ this_fit # None => this_fit.b[1] # 0)

\* The search has widened past a sub-window whose slope is 0.
WidenedPastZeroSlope ==
    /\ pc = "search"
    /\ steps = InitialSteps + delta
    /\ fit.status = "ok"
    /\ fit.b[1] = 0
    /\ Len(this_sample) = 3

----------------------------------------------------------------------------
(* C8 *)

\* S*Sxx - Sx**2 of the x values, for unit weights
Determinant(x) ==
    LET n == Len(x)
        sum == SumSeq([i \in 1..n |-> x[i]])
    IN  n * SumSeq([i \in 1..n |-> x[i] * x[i]]) - sum * sum

ScanDeterminantPositive ==
    pc = "test" => Len(this_sample) >= 3 /\ fit.status = "ok" /\ fit.b[2] > 0

----------------------------------------------------------------------------
(* C10 *)

\* C10: every fit of the result list carries the derived dimensionless
\* transfer numbers (ShR) in addition to the regression statistics.
FitsCarryTransferNumbers ==
    \A i \in FitIndexes : "ShR" \in DOMAIN fits[i]

----------------------------------------------------------------------------
(* C11 *)

\* C11: scans are independent: a scan started by a later call of
\* process_fits on the same engine starts with the pointer at 1 and an
\* empty result list, and the fits it reports (and persists) are fits of
\* the later series: each was made at a pointer value idx < N - 2 of that
\* series.
ScansAreIndependent ==
    /\ (pc = "while" /\ iterations = 0) => idx = InitialIdx /\ fits = <<>>
    /\ pc = "persisted" => \A i \in FitIndexes : fits[i].idx < NObs - 2

----------------------------------------------------------------------------
(* C12 - C14 *)

\* C12: an unrecognized film-averaging rule name or diffusion-correlation
\* name raises ValueError at the call, no value is returned, and the
\* rule and the correlation that were set stay as they were.
UnknownNamesAreRejected ==
    /\ [][(film_call'.op = "change_rule" /\ film_call'.arg \notin ReferenceRules) =>
            film_call'.result = ValueError /\ ref_state' = ref_state]_vars
    /\ [][(film_call'.op = "change_ref" /\ film_call'.arg \notin References) =>
            film_call'.result = ValueError /\ ref_state' = ref_state]_vars
    /\ [][(film_call'.op = "use_rule" /\ film_call'.arg.rule \notin FilmRules) =>
            film_call'.result = ValueError /\ ref_state' = ref_state]_vars
    /\ [](film_call.op \in {"change_rule", "change_ref"} =>
            (ref_state.rule \in ReferenceRules /\ ref_state.ref \in References))

\* change_rule('one') has raised on a reference state whose rule had been
\* changed to 'one-half': the rule is still 'one-half'.
RejectedRuleKeptSetting ==
    /\ film_call.op = "change_rule"
    /\ film_call.arg = "one"
    /\ film_call.result = ValueError
    /\ ref_state.rule = "one-half"

\* The weight of a rule: 1/2 for the mean rule, 1/3 for the one-third
\* rule, as <<numerator, denominator>>.
Weight(rule) == IF rule \in {"1/2", "one-half", "mean"} THEN <<1, 2>> ELSE <<1, 3>>

\* value = s + w*(e - s), for value = <<numerator, denominator>>
IsFilmValue(value, e, s, w) ==
    value[1] * w[2] = ((s * w[2]) + (w[1] * (e - s))) * value[2]

\* C13: the film reference value is s + w*(e - s), with w = 1/2 for the
\* mean rule and w = 1/3 for the one-third rule, for every ambient value
\* e and surface value s; the film temperature used in the property
\* evaluation of the scan path follows the rule that is selected.
FilmValueFollowsRule ==
    /\ (film_call.op = "use_rule" /\ film_call.arg.rule \in FilmRules) =>
        IsFilmValue(film_call.result, film_call.arg.e_value, film_call.arg.s_value,
                    Weight(film_call.arg.rule))
    /\ film_call.op = "update" =>
        IsFilmValue(ref_state.t_film, ref_state.exp_state.tm, ref_state.ts_guess,
                    Weight(ref_state.rule))
    /\ film_call.op = "_set_local_properties" =>
        IsFilmValue(film_call.result.T, film_call.arg.Te, film_call.arg.Ts,
                    Weight(ref_state.rule))

\* The film state a new ReferenceState with the rule and the correlation
\* given has after one evaluation with the guess.
SingleEvaluation(ts_guess, exp_state, rule, ref) ==
    Eval([ReferenceState(ts_guess, exp_state) EXCEPT !.rule = rule, !.ref = ref])

\* C14: the refinement entry point is a function of the guess and the
\* ExperimentalState: after any sequence of update(guess) calls the film
\* state is the one a single evaluation with the last guess gives, so
\* that update(g2) followed by update(g1) restores the film state of g1.
UpdateDependsOnLastGuess ==
    film_call.op = "update" =>
        ref_state = SingleEvaluation(film_call.arg, ref_state.exp_state,
                                     ref_state.rule, ref_state.ref)

\* update(285) has evaluated the film state, as at the end of test_update:
\* the surface mole fraction is the one at 285.
UpdatedBackToFirstGuess ==
    /\ film_call.op = "update"
    /\ film_call.arg = 285
    /\ ref_state.ts_guess = 285
    /\ ref_state.xs = [sat_at |-> 285, p |-> ref_state.exp_state.p]

----------------------------------------------------------------------------
(* C15 *)

\* The points (x[i], y[i]) lie on one line y = a + b*x with b # 0: the x
\* values are not all equal, the y values are not all equal and all
\* points are collinear.
ExactlyLinear(x, y) ==
    /\ Len(x) = Len(y)
    /\ Determinant(x) # 0
    /\ \E i, j \in 1..Len(y) : y[i] # y[j]
    /\ \A i, j, k \in 1..Len(x) :
        (y[j] - y[i]) * (x[k] - x[i]) = (y[k] - y[i]) * (x[j] - x[i])

\* The returned line a + b*x passes through every point (x[i], y[i]):
\* a and b are the intercept and the slope of the data.
RecoversLine(f, x, y) ==
    \A i \in 1..Len(x) : y[i] * f.b[2] = f.a[1] + f.b[1] * x[i]

\* C15 as stated: for exactly linear data y[i] = a + b*x[i] (b # 0,
\* sigma > 0) the regressor returns intercept a and slope b,
\* sigma_a = sigma_b = 0, R^2 = 1, chi-square = 0 and Q = 1.
LinearDataHasNoUncertainty ==
    /\ (pc = "evaluate_fit" /\ ExactlyLinear(Range(Len(this_sample)), MassOf(this_sample))) =>
        /\ this_fit.status = "ok"
        /\ RecoversLine(this_fit, Range(Len(this_sample)), MassOf(this_sample))
        /\ this_fit.sig_a[1] = 0 /\ this_fit.sig_b[1] = 0
        /\ IsZeroSumSq(this_fit.r2.one_minus[1])
        /\ IsZeroSumSq(this_fit.chi2)
        /\ this_fit.q.value = "1"
    /\ (pc = "chi2" /\ ExactlyLinear(time, m)) =>
        /\ fit.status = "ok"
        /\ RecoversLine(fit, time, m)
        /\ fit.sigma_a[1] = 0 /\ fit.sigma_b[1] = 0
        /\ IsZeroSumSq(fit.chi2)
        /\ fit.q.value = "1"

\* C15 as amended: for exactly linear data the regressor returns the
\* intercept and the slope of the line, R^2 = 1, chi-square = 0 and, for
\* three points or more, Q = 1 (nan for two points); sigma_a**2 = Sxx/Delta
\* and sigma_b**2 = S/Delta are positive whatever the residuals are.
LinearDataIsFittedExactly ==
    /\ (pc = "evaluate_fit" /\ ExactlyLinear(Range(Len(this_sample)), MassOf(this_sample))) =>
        LET x == Range(Len(this_sample))
        IN  /\ this_fit.status = "ok"
            /\ RecoversLine(this_fit, x, MassOf(this_sample))
            /\ this_fit.sig_a = <<SumSeq([i \in 1..Len(x) |-> x[i] * x[i]]), Determinant(x)>>
            /\ this_fit.sig_b = <<Len(x), Determinant(x)>>
            /\ this_fit.sig_a[1] > 0 /\ this_fit.sig_b[1] > 0 /\ Determinant(x) > 0
            /\ IsZeroSumSq(this_fit.r2.one_minus[1])
            /\ ~IsZeroSumSq(this_fit.r2.one_minus[2])
            /\ IsZeroSumSq(this_fit.chi2)
            /\ this_fit.q.value = IF Len(x) >= 3 THEN "1" ELSE "nan"
    /\ (pc = "chi2" /\ ExactlyLinear(time, m)) =>
        /\ fit.status = "ok"
        /\ RecoversLine(fit, time, m)
        /\ fit.sigma_a = <<SumSeq([i \in 1..Len(time) |-> time[i] * time[i]]), Determinant(time)>>
        /\ fit.sigma_b = <<Len(time), Determinant(time)>>
        /\ fit.sigma_a[1] > 0 /\ fit.sigma_b[1] > 0 /\ Determinant(time) > 0
        /\ IsZeroSumSq(fit.chi2)
        /\ fit.q.value = IF Len(time) >= 3 THEN "1" ELSE "nan"

\* _evaluate_fit has returned for three points on a line of slope # 0.
EvaluatedLinearData ==
    /\ pc = "evaluate_fit"
    /\ Len(this_sample) = 3
    /\ ExactlyLinear(Range(3), MassOf(this_sample))
    /\ this_fit.status = "ok"

----------------------------------------------------------------------------
(* C16 - C17 *)

\* The row and the specification agree on all five attributes of a tube.
SameTube(row, tube_spec) ==
    /\ row.inner_diameter = tube_spec.inner_diameter
    /\ row.outer_diameter = tube_spec.outer_diameter
    /\ row.height = tube_spec.height
    /\ row.material = tube_spec.material
    /\ row.mass = tube_spec.mass

\* No two rows of the table agree on all five attributes.
NoTwoAlike(table) ==
    \A i, j \in 1..Len(table) : i # j => ~SameTube(table[i], table[j])

\* The table 'after' is the table 'before' with rows added at its end.
KeepsRows(before, after) ==
    /\ Len(before) <= Len(after)
    /\ SubSeq(after, 1, Len(before)) = before

\* One call that adds tube_spec to the table 'before', gives the table
\* 'after' and returns 'key': a stored tube is found again and nothing is
\* added, a tube that is not stored gets exactly one new row.
AddsOnlyNewTubes(before, after, tube_spec, key) ==
    LET stored == {k \in 1..Len(before) : SameTube(before[k], tube_spec)}
    IN  IF stored # {}
        THEN after = before /\ key \in stored
        ELSE /\ Len(after) = Len(before) + 1
             /\ KeepsRows(before, after)
             /\ key = Len(after)
             /\ SameTube(after[key], tube_spec)

----------------------------------------------------------------------------
(* C18 *)

\* The rows of the Fit table stored by the running call of _persist_fits.
StoredByThisCall == SubSeq(fit_table, Len(fit_table) - counter + 1, Len(fit_table))

\* A row of the Fit table carries the values of the fit f.
RowCarries(row, f) ==
    /\ row.a = f.a /\ row.sig_a = f.sig_a
    /\ row.b = f.b /\ row.sig_b = f.sig_b
    /\ row.r2 = f.r2 /\ row.q = f.q /\ row.chi2 = f.chi2
    /\ row.nu = f.nu /\ row.idx = f.idx

----------------------------------------------------------------------------
(* C19 - C20 *)

\* The index range [lo, hi] as a frame of row positions.
IndexRange(lo, hi) == [k \in 1..(hi - lo + 1) |-> lo + k - 1]

\* C19: in every outer iteration with pointer idx (1 <= idx < N - 2) the
\* candidate sample is the index range [max(0, 2*idx - N + 1),
\* min(N - 1, 2*idx)]: it lies within the series, has the odd length
\* 2*min(idx, N - 1 - idx) + 1 >= 3 and is centred on idx.
CandidateSampleIsSymmetricRange ==
    pc \in {"search", "test", "returned"} =>
        /\ 1 <= idx /\ idx < NObs - 2
        /\ sample = IndexRange(Max(0, (2 * idx) - NObs + 1), Min(NObs - 1, 2 * idx))
        /\ Len(sample) = 2 * Min(idx, NObs - 1 - idx) + 1
        /\ Len(sample) >= 3
        /\ time[sample[center + 1] + 1] = idx

\* C20: on acceptance the pointer advances by exactly the length of the
\* accepted window, nu + 2 = 2*steps + 1, and the new pointer value is
\* strictly greater than the last observation index of the accepted window.
PointerPassesAcceptedWindow ==
    [][pc = "returned" /\ this_fit # None /\ pc' = "while" =>
        /\ idx' = idx + Len(this_sample)
        /\ Len(this_sample) = 2 * steps + 1
        /\ fits'[Len(fits')].nu + 2 = Len(this_sample)
        /\ idx' > time[this_sample[Len(this_sample)] + 1]]_vars

----------------------------------------------------------------------------
(* C21 *)

----------------------------------------------------------------------------
(* C22 *)

\* C22: each inner search terminates for the growth step delta >= 1: on a
\* candidate sample of length L it fits at most floor((L - 1) / (2*delta))
\* sub-windows (none on an empty sample), the half-width is the starting
\* one plus delta for every sub-window fitted and rejected so far, and
\* the search ends with an accepted fit or with the empty result, not
\* with an exception.
InnerSearchTerminates ==
    /\ [](pc \in {"search", "test", "returned"} =>
            /\ delta >= 1
            /\ 2 * delta * fitted <= Max(Len(sample) - 1, 0)
            /\ pc = "search" => steps = InitialSteps + (fitted * delta)
            /\ pc = "test" => steps = InitialSteps + ((fitted - 1) * delta))
    /\ [][pc = "search" =>
            \/ pc' = "test" /\ fitted' = fitted + 1 /\ steps' = steps
            \/ pc' = "returned" /\ this_fit' = None /\ fitted' = fitted]_vars
    /\ [][pc = "test" =>
            \/ pc' = "search" /\ steps' = steps + delta /\ fitted' = fitted
            \/ pc' = "returned" /\ this_fit' = fit /\ fitted' = fitted]_vars
    /\ [](pc # "raised")

\* A search on a sample of five rows has fitted its two sub-windows,
\* rejected both and ended with the empty result.
SearchExhaustedSample ==
    /\ pc = "returned"
    /\ this_fit = None
    /\ Len(sample) = 5
    /\ fitted = 2
    /\ steps = InitialSteps + (2 * delta)

----------------------------------------------------------------------------
(* C23 *)

\* No two rows of the table share a datetime.
NoTwoAtOnce(table) ==
    \A i, j \in 1..Len(table) : i # j => table[i].datetime # table[j].datetime

\* One call that adds an experiment with the datetime given to the table
\* 'before', gives the table 'after' and returns 'key': a stored datetime
\* is found again and nothing is added, another one gets exactly one row.
AddsOnlyNewDatetimes(before, after, datetime, key) ==
    LET stored == {k \in 1..Len(before) : before[k].datetime = datetime}
    IN  IF stored # {}
        THEN after = before /\ key \in stored
        ELSE /\ Len(after) = Len(before) + 1
             /\ KeepsRows(before, after)
             /\ key = Len(after)
             /\ after[key].datetime = datetime

----------------------------------------------------------------------------
(* C24 *)

\* The number of temperatures of a list of ObservationSpec.
TemperatureCount(observations) ==
    SumSeq([i \in 1..Len(observations) |-> Len(observations[i].temperatures)])

\* The rows added to the table 'before' to give the table 'after'.
AddedRows(before, after) == SubSeq(after, Len(before) + 1, Len(after))

----------------------------------------------------------------------------
(* C25 *)

\* The statements the cursor executed during the last call.
ExecutedByCall == SubSeq(cursor, crud.before + 1, Len(cursor))

\* The place of the statement in the sequence of statements.
PlaceOf(statement, statements) ==
    CHOOSE i \in 1..Len(statements) : statements[i] = statement

\* C25: _execute_build executes the DDL of the tables of a table group in
\* the group's table_order, and _execute_drop drops the same tables in
\* exactly the reverse of that order, so that a table is dropped before
\* every table created before it; each returns the success message that
\* names the group.
TablesAreDroppedInReverse ==
    /\ crud.op = "_execute_build" =>
        LET table_order == build_instructions[crud.arg].table_order
        IN  /\ Len(ExecutedByCall) = Len(table_order)
            /\ \A i \in 1..Len(table_order) : ExecutedByCall[i] = Ddl[table_order[i]]
            /\ crud.result = <<"Successfully built ", crud.arg, " tables.">>
    /\ crud.op = "_execute_drop" =>
        LET table_order == build_instructions[crud.arg].table_order
            n == Len(table_order)
            Drop(table) == <<"DROP TABLE ", table, ";">>
        IN  /\ Len(ExecutedByCall) = n
            /\ \A i \in 1..n : ExecutedByCall[i] = Drop(table_order[n - i + 1])
            /\ \A i, j \in 1..n :
                i < j => PlaceOf(Drop(table_order[j]), ExecutedByCall) <
                         PlaceOf(Drop(table_order[i]), ExecutedByCall)
            /\ crud.result = <<"Successfully dropped ", crud.arg, " tables.">>

\* The three tables of the unit tests were built and then dropped on one
\* cursor: 'three' went first and 'one' last.
BuiltThenDropped ==
    /\ crud.op = "_execute_drop"
    /\ build_instructions[crud.arg].table_order = <<"one", "two", "three">>
    /\ cursor = <<"foo", "bar", "bacon!",
                  <<"DROP TABLE ", "three", ";">>,
                  <<"DROP TABLE ", "two", ";">>,
                  <<"DROP TABLE ", "one", ";">> >>

----------------------------------------------------------------------------
(* C26 *)

\* value is the arithmetic mean of the readings, value = <<num, den>>
IsMeanOf(value, readings) ==
    /\ value[2] > 0
    /\ value[1] * Len(readings) = SumSeq(readings) * value[2]

\* The calibration applied to one reading in hundredths of a kelvin:
\* intercept + slope * (raw Celsius value), back in kelvin, as the
\* numerator over CalibrationBDen.
Calibrated(reading) ==
    (CalibrationA * CalibrationBDen) + (CalibrationBNum * (reading - Offset))
        + (Offset * CalibrationBDen)

\* C26: the ExperimentalState of a window holds the arithmetic means of
\* the ambient temperature, the dew point and the pressure over the
\* window, and a mean surface temperature that is the mean of the
\* readings each passed through the linear calibration intercept + slope
\* * (raw Celsius value); its value is intercept + slope * (mean raw
\* Celsius value), converted back to kelvin.
StateHoldsCalibratedMeans ==
    film_call.op = "_set_local_exp_state" =>
        LET data == film_call.arg
            n == Len(data)
            state == film_call.result
            Ts == [i \in 1..n |-> data[i].Ts]
        IN  /\ IsMeanOf(state.Te, [i \in 1..n |-> data[i].Te])
            /\ IsMeanOf(state.Tdp, [i \in 1..n |-> data[i].Tdp])
            /\ IsMeanOf(state.P, [i \in 1..n |-> data[i].P])
            \* the mean of the calibrated readings
            /\ state.Ts[2] = CalibrationBDen * n
            /\ state.Ts[1] = SumSeq([i \in 1..n |-> Calibrated(Ts[i])])
            \* intercept + slope * (mean raw Celsius value), in kelvin
            /\ state.Ts[1] = (CalibrationA * CalibrationBDen * n)
                                + (CalibrationBNum * (SumSeq(Ts) - (Offset * n)))
                                + (Offset * CalibrationBDen * n)

\* The state of a window of three rows with different surface readings
\* was set: 288.15, 290.15 and 290.15 K read, 16.3333 C in the mean,
\* 14.7202 C or 287.8702 K after the calibration.
SetStateOfMixedWindow ==
    /\ film_call.op = "_set_local_exp_state"
    /\ Len(film_call.arg) = 3
    /\ film_call.arg[1].Ts = 28815
    /\ film_call.arg[2].Ts = 29015
    /\ film_call.arg[3].Ts = 29015
    /\ film_call.result.Ts = <<863610500, 30000>>

----------------------------------------------------------------------------
(* C27 *)

\* C27: coverage of the scan: when a scan in which no window was accepted
\* has run its loop and returned, every observation index 0..N-1 has
\* belonged to at least one candidate sample the scan examined: the
\* advance after NoFitFound skips only observations of an examined
\* candidate sample (stated here for the series with contiguous time
\* indices).
NoFitScanCoversSeries ==
    (Contiguous /\ pc = "done" /\ fits = <<>> /\ iterations >= 1) =>
        examined = 0..(NObs - 1)

----------------------------------------------------------------------------
(* C28 *)

\* The observation indices (time labels) of the rows of a frame.
IndicesOf(frame) == [k \in 1..Len(frame) |-> time[frame[k] + 1]]

\* C28: every accepted window is the symmetric index range
\* [idx - s, idx + s] about the scan pointer idx at the time of
\* acceptance, s = (nu + 1) / 2; it lies inside the candidate sample and
\* inside [0, N - 1]; and the value recorded as the fit's 'idx' is that
\* centre index, not the window's first index.
AcceptedWindowIsCentredOnIdx ==
    /\ (pc = "returned" /\ this_fit # None) =>
        /\ IndicesOf(this_sample) = IndexRange(idx - steps, idx + steps)
        /\ \A k \in 1..Len(this_sample) : \E j \in 1..Len(sample) : sample[j] = this_sample[k]
    /\ (pc = "while" /\ this_fit # None) =>
        LET f == fits[Len(fits)]
            s == (f.nu + 1) \div 2
        IN  /\ 2 * s = f.nu + 1
            /\ IndicesOf(this_sample) = IndexRange(f.idx - s, f.idx + s)
            /\ 0 <= f.idx - s /\ f.idx + s <= NObs - 1
            /\ f.idx = IndicesOf(this_sample)[s + 1]
            /\ f.idx # IndicesOf(this_sample)[1]

----------------------------------------------------------------------------
(* C29 *)

\* The y values are not all equal.
NotAllEqual(y) == \E i, j \in 1..Len(y) : y[i] # y[j]

\* C29: no division by zero occurs anywhere in the scan, for any mass
\* series with contiguous time indices: every sub-window handed to
\* _ols_fit has at least 3 points with x = 0..n-1 and constant sigma > 0,
\* so that Delta > 0; and every accepted window has slope # 0, so that
\* its y values are not all equal and SStot > 0 in _evaluate_fit.
NoDivisionByZeroInScan ==
    Contiguous =>
        /\ pc # "raised"
        /\ pc = "test" =>
            /\ Len(this_sample) >= 3
            /\ Determinant(Range(Len(this_sample))) > 0
            /\ fit.status = "ok"
            /\ fit.a[2] > 0 /\ fit.b[2] > 0 /\ fit.sig_a[2] > 0 /\ fit.sig_b[2] > 0
        /\ (pc = "returned" /\ this_fit # None) =>
            /\ this_fit.b[1] # 0
            /\ NotAllEqual(MassOf(this_sample))
            /\ EvaluateFit(this_fit, MassOf(this_sample), ExperimentId, idx).status = "ok"
        /\ \A i \in FitIndexes :
            /\ fits[i].status = "ok"
            /\ fits[i].b[1] # 0
            /\ ~IsZeroSumSq(fits[i].r2.one_minus[2])

\* In a series with contiguous time indices a window of five rows was
\* accepted and evaluated after the three equal masses at its middle
\* (slope 0, and SStot = 0 had they been evaluated) were widened past.
EvaluatedPastFlatWindow ==
    /\ Contiguous
    /\ pc = "while"
    /\ this_fit # None
    /\ this_fit.status = "ok"
    /\ Len(this_sample) = 5
    /\ ~NotAllEqual(MassOf(SubSeq(this_sample, 2, 4)))
    /\ ~IsZeroSumSq(this_fit.r2.one_minus[2])

----------------------------------------------------------------------------
(* C30 *)

\* C30: the result list is ordered: fits are appended in the order in
\* which they are accepted (each at the end of the list, in the iteration
\* that accepted it), the list only grows during a scan (a fit once
\* appended is never removed or replaced), and the recorded idx values
\* of consecutive fits are strictly increasing.
ResultListIsOrdered ==
    /\ [](\A i \in 1..(Len(fits) - 1) : fits[i].idx < fits[i + 1].idx)
    /\ [][fits' # fits =>
            /\ pc = "returned" /\ this_fit # None
            /\ Len(fits') = Len(fits) + 1
            /\ SubSeq(fits', 1, Len(fits)) = fits
            /\ fits'[Len(fits')].idx = idx
            /\ fits'[Len(fits')].a = this_fit.a
            /\ fits'[Len(fits')].b = this_fit.b]_vars
    /\ [][(pc = "returned" /\ this_fit # None) => Len(fits') = Len(fits) + 1]_vars

\* A scan has returned a list of two fits.
ScanReturnedTwoFits ==
    /\ pc = "done"
    /\ Len(fits) = 2
    /\ fits[1].idx < fits[2].idx

====
